---- MODULE Spec2Model ----
(***************************************************************************)
(* State-machine model of the chat server (src/src/server.cpp), of the     *)
(* Message codec (common.hpp, src/unnamed/part_001) and of the chat client *)
(* (client.cpp, src/unnamed/part_000).                                     *)
(*                                                                         *)
(* Handlers of the io_context run on worker threads.  Each thread is       *)
(* either idle or executing one completion handler; a handler is a         *)
(* sequence of atomic steps, one per access to shared state (the room      *)
(* mutex, a session's write_mutex_, the atomic writing_ flag, the          *)
(* initiation of an asynchronous operation).                               *)
(***************************************************************************)
EXTENDS Integers, Sequences, FiniteSets, TLC

(***************************************************************************)
(* Program constants                                                       *)
(***************************************************************************)
HEADER_SIZE == 4
MAX_BODY_SIZE == 512
MAX_RECENT_MSGS == 100
\* std::ctime() gives 25 characters ending in '\n'; pop_back() leaves 24.
\* "[" + timestamp + "] Client: " is 1 + 24 + 10 characters.
PREFIX_LEN == 35
\* size_t arithmetic is modular.  TLC's integers are 32-bit, so the model
\* takes a 30-bit size_t; a 4-character header makes atoi return a value in
\* -999..9999, and for those every width of 14 bits or more compares the
\* same way against MAX_BODY_SIZE.
SIZE_MODULUS == 2^30

(***************************************************************************)
(* Bounds of the model                                                     *)
(***************************************************************************)
NSessions == 2
NThreads == 2
MaxFrames == 3
MaxWireFrames == 1
MaxBacklogFrames == 2

Sessions == 1..NSessions
Threads == 1..NThreads

(***************************************************************************)
(* Message codec                                                           *)
(***************************************************************************)
\* Characters are one-character strings; "NUL" stands for the byte 0 and
\* "VT" for the vertical tab.
IsSpace(c) == c \in {" ", "\t", "\n", "\r", "\f", "VT"}
IsDigit(c) == c \in {"0", "1", "2", "3", "4", "5", "6", "7", "8", "9"}
DigitVal(c) ==
    CASE c = "0" -> 0 [] c = "1" -> 1 [] c = "2" -> 2 [] c = "3" -> 3
      [] c = "4" -> 4 [] c = "5" -> 5 [] c = "6" -> 6 [] c = "7" -> 7
      [] c = "8" -> 8 [] c = "9" -> 9
DigitChar(d) == <<"0", "1", "2", "3", "4", "5", "6", "7", "8", "9">>[d + 1]

Min(a, b) == IF a <= b THEN a ELSE b

\* The decimal digits of n >= 0, most significant first.
RECURSIVE Digits(_)
Digits(n) == IF n < 10 THEN <<DigitChar(n)>>
             ELSE Append(Digits(n \div 10), DigitChar(n % 10))

RECURSIVE Spaces(_)
Spaces(k) == IF k <= 0 THEN <<>> ELSE <<" ">> \o Spaces(k - 1)

\* std::sprintf(header, "%4d", n) for n >= 0: right-justified in a field of
\* at least 4 characters, padded with spaces.
Sprintf4d(n) == Spaces(HEADER_SIZE - Len(Digits(n))) \o Digits(n)

\* std::strncat(header, data, HEADER_SIZE) onto an empty string: the first
\* HEADER_SIZE characters of data, stopping at a NUL.
RECURSIVE StrUpToNul(_)
StrUpToNul(s) == IF s = <<>> \/ Head(s) = "NUL" THEN <<>>
                 ELSE <<Head(s)>> \o StrUpToNul(Tail(s))
\* Mutant of Strncat: the parse is not limited to the header's characters.
StrncatUnbounded(data) == StrUpToNul(data)

Strncat(data) == StrUpToNul(SubSeq(data, 1, Min(HEADER_SIZE, Len(data))))

RECURSIVE SkipSpace(_)
SkipSpace(s) == IF s # <<>> /\ IsSpace(Head(s)) THEN SkipSpace(Tail(s)) ELSE s

RECURSIVE ParseDigits(_, _)
ParseDigits(s, acc) ==
    IF s # <<>> /\ IsDigit(Head(s))
    THEN ParseDigits(Tail(s), acc * 10 + DigitVal(Head(s)))
    ELSE acc

\* std::atoi: skip white space, take an optional sign, then the longest run
\* of digits; 0 when there is none.
Atoi(str) ==
    LET s == SkipSpace(str)
    IN  IF s # <<>> /\ Head(s) = "-" THEN 0 - ParseDigits(Tail(s), 0)
        ELSE IF s # <<>> /\ Head(s) = "+" THEN ParseDigits(Tail(s), 0)
        ELSE ParseDigits(s, 0)

\* Conversion of an int to size_t.
ToSizeT(i) == IF i < 0 THEN SIZE_MODULUS + i ELSE i % SIZE_MODULUS

\* A Message is [data, body_length]: data is the header's HEADER_SIZE
\* characters followed by the body.
Header(m) == SubSeq(m.data, 1, HEADER_SIZE)
Body(m) == SubSeq(m.data, HEADER_SIZE + 1, Len(m.data))
Length(m) == HEADER_SIZE + m.body_length

\* Message::encode_header: memcpy(data, header, HEADER_SIZE).
encode_header(m) ==
    LET header == Sprintf4d(m.body_length)
    IN  [m EXCEPT !.data = [i \in 1..Len(m.data) |->
                               IF i <= HEADER_SIZE THEN header[i] ELSE m.data[i]]]

\* Mutant of decode_header_ok: < in place of <=.
decode_header_ok_strict(m) ==
    ToSizeT(Atoi(Strncat(m.data))) < MAX_BODY_SIZE

\* Message::decode_header: the message afterwards, and the value returned.
decode_header_msg(m) == [m EXCEPT !.body_length = ToSizeT(Atoi(Strncat(m.data)))]
decode_header_ok(m) == decode_header_msg(m).body_length <= MAX_BODY_SIZE

(***************************************************************************)
(* Server state                                                            *)
(***************************************************************************)
VARIABLES
    participants_,     \* ChatRoom: the sessions in the room
    recent_messages_,  \* ChatRoom: the backlog, oldest first
    mutex_,            \* ChatRoom: the thread holding the room mutex, or 0
    read_msg_,         \* ChatSession: the pending-read buffer
    write_msgs_,       \* ChatSession: the outbound queue
    write_mutex_,      \* ChatSession: the thread holding write_mutex_, or 0
    writing_,          \* ChatSession: the atomic active-write flag
    readOp,            \* per session: the async_reads outstanding
    writeOps,          \* per session: the async_writes in flight
    acceptArmed,       \* an async_accept is outstanding
    nAccepted,         \* connections accepted so far
    nframes,           \* inbound headers accepted so far
    nextId,            \* the next inbound body's token
    th,                \* per worker thread: the handler it is executing
    delivered,         \* history: the messages of ChatRoom::deliver, in order
    members,           \* history: participants_ at each of those calls
    enq,               \* history: per session, the messages pushed to it
    issued,            \* history: per session, the messages of its async_writes
    wfailed,           \* history: per session, a write has failed
    rfailed,           \* history: per session, a read has failed
    joinK,             \* history: per session, Len(delivered) when it joined
    nleave,            \* history: per session, the completed leave calls
    codec,             \* the codec under test (specification SpecCodec)
    client             \* the chat client (specification SpecClient)

vars == <<participants_, recent_messages_, mutex_, read_msg_, write_msgs_,
          write_mutex_, writing_, readOp, writeOps, acceptArmed, nAccepted,
          nframes, nextId, th, delivered, members, enq, issued, wfailed, rfailed, joinK,
          nleave, codec, client>>

roomVars == <<participants_, recent_messages_, mutex_>>
queueVars == <<write_msgs_, write_mutex_, writing_>>
histVars == <<delivered, members, enq, issued, wfailed, rfailed, joinK,
              nleave>>

\* In the server model the body of a message is one token standing for its
\* bytes: the inbound frame they come from (the session it was read on, its
\* number, the length of its body), how many bytes of the "[timestamp]
\* Client: " prefix stand in front, and how many bytes of the frame's body
\* follow.  Frame 0 is the indeterminate bytes of a Message never filled.
NoBytes == [from |-> 0, frame |-> 0, len |-> 0, prefix |-> 0, kept |-> 0]
FrameBytes(s, id, n) == [from |-> s, frame |-> id, len |-> n, prefix |-> 0, kept |-> n]

NewMessage == [data |-> <<"?", "?", "?", "?", NoBytes>>, body_length |-> 0]

\* The headers the peers send: a frame of the longest body, and one byte
\* more.
InHeaders == { <<" ", "5", "1", "2">>, <<" ", "5", "1", "3">> }

\* The headers the peers send in specification SpecWire: those, a short
\* frame, the largest number four digits hold, a negative number, bytes that
\* are no number, and bytes that begin with one.
WireHeaders ==
    InHeaders \cup
    { <<" ", " ", " ", "5">>,
      <<"9", "9", "9", "9">>, <<" ", " ", "-", "1">>,
      <<"a", "b", "c", "d">>, <<"1", "2", "a", "b">> }

\* An asynchronous operation completes: it is outstanding no more.
RemoveAt(q, i) == SubSeq(q, 1, i - 1) \o SubSeq(q, i + 1, Len(q))

\* A worker thread executing no handler.
Idle == [pc |-> "idle", self |-> 0, to |-> 0, msg |-> NewMessage,
         iter |-> <<>>, rest |-> {}, wip |-> FALSE, ret |-> "idle"]

\* The io_context hands a ready handler to any thread blocked in run(); the
\* threads are interchangeable, so the model takes the first idle one.
IdleThread(t) ==
    /\ th[t].pc = "idle"
    /\ \A u \in Threads : u < t => th[u].pc # "idle"

\* Return from a call: to the caller's loop, or out of the handler.
Return(t, r) == IF r.ret = "idle" THEN [th EXCEPT ![t] = Idle]
                ELSE [th EXCEPT ![t] = [r EXCEPT !.pc = r.ret, !.to = 0,
                                                 !.wip = FALSE]]

ServerInit ==
    /\ participants_ = {}
    /\ recent_messages_ = <<>>
    /\ mutex_ = 0
    /\ read_msg_ = [s \in Sessions |-> NewMessage]
    /\ write_msgs_ = [s \in Sessions |-> <<>>]
    /\ write_mutex_ = [s \in Sessions |-> 0]
    /\ writing_ = [s \in Sessions |-> FALSE]
    /\ readOp = [s \in Sessions |-> <<>>]
    /\ writeOps = [s \in Sessions |-> <<>>]
    /\ acceptArmed = TRUE
    /\ nAccepted = 0
    /\ nframes = 0
    /\ nextId = 1
    /\ th = [t \in Threads |-> Idle]
    /\ delivered = <<>>
    /\ members = <<>>
    /\ enq = [s \in Sessions |-> <<>>]
    /\ issued = [s \in Sessions |-> <<>>]
    /\ wfailed = [s \in Sessions |-> FALSE]
    /\ rfailed = [s \in Sessions |-> FALSE]
    /\ joinK = [s \in Sessions |-> 0]
    /\ nleave = [s \in Sessions |-> 0]

CodecIdle == [pc |-> "off", msg |-> NewMessage, body |-> <<>>, n |-> 0, ok |-> FALSE]

\* The client before ChatClient is constructed.
ClientOff ==
    [connecting |-> FALSE, connected_ |-> FALSE, closed |-> FALSE,
     reading |-> FALSE, writing_ |-> FALSE, write_msgs_ |-> <<>>,
     write_mutex_ |-> "free", writeOps |-> <<>>,
     pc |-> [who \in {"main", "io"} |-> "off"], msg |-> 0, wip |-> FALSE,
     nlines |-> 0, passed |-> <<>>, issued |-> <<>>, wfailed |-> FALSE]

Init == ServerInit /\ codec = CodecIdle /\ client = ClientOff

(***************************************************************************)
(* ChatServer::do_accept: the accept handler.  It runs start() on the      *)
(* accepting thread and re-arms the accept only after start() returns.     *)
(***************************************************************************)
\* Mutant of AcceptHandler: start() issues the first read before it joins.
AcceptHandlerReadFirst(t) ==
    /\ IdleThread(t)
    /\ acceptArmed
    /\ nAccepted < NSessions
    /\ \E ec \in BOOLEAN :
         IF ec
         THEN UNCHANGED <<acceptArmed, nAccepted, th, readOp>>
         ELSE /\ acceptArmed' = FALSE
              /\ nAccepted' = nAccepted + 1
              /\ readOp' = [readOp EXCEPT ![nAccepted + 1] = Append(@, "header")]
              /\ th' = [th EXCEPT ![t] = [Idle EXCEPT !.pc = "join_lock",
                                                      !.self = nAccepted + 1]]
    /\ UNCHANGED <<roomVars, queueVars, read_msg_, writeOps, nframes, nextId,
                   histVars, codec, client>>

AcceptHandler(t) ==
    /\ IdleThread(t)
    /\ acceptArmed
    /\ nAccepted < NSessions
    /\ \E ec \in BOOLEAN :
         IF ec
         THEN \* do_accept() again
              UNCHANGED <<acceptArmed, nAccepted, th>>
         ELSE \* make_shared<ChatSession>(...)->start(): room_.join(...)
              /\ acceptArmed' = FALSE
              /\ nAccepted' = nAccepted + 1
              /\ th' = [th EXCEPT ![t] = [Idle EXCEPT !.pc = "join_lock",
                                                      !.self = nAccepted + 1]]
    /\ UNCHANGED <<roomVars, queueVars, read_msg_, readOp, writeOps, nframes,
                   nextId, histVars, codec, client>>

(***************************************************************************)
(* ChatRoom::join                                                          *)
(***************************************************************************)
\* Mutant of Snapshot: the replay starts one past the oldest message.
SnapshotSkipOldest(q) == IF q = <<>> THEN q ELSE Tail(q)

\* std::queue<Message>(recent_messages_): the copy the replay loop walks,
\* oldest first.
Snapshot(q) == q

\* lock_guard; participants_.insert; the copy of recent_messages_ to iterate.
JoinLock(t) ==
    /\ th[t].pc = "join_lock"
    /\ mutex_ = 0
    /\ mutex_' = t
    /\ participants_' = participants_ \cup {th[t].self}
    /\ joinK' = [joinK EXCEPT ![th[t].self] = Len(delivered)]
    /\ th' = [th EXCEPT ![t].pc = "join_loop", ![t].iter = Snapshot(recent_messages_)]
    /\ UNCHANGED <<recent_messages_, queueVars, read_msg_, readOp, writeOps,
                   acceptArmed, nAccepted, nframes, nextId, delivered, members, enq,
                   issued, wfailed, rfailed, nleave, codec, client>>

\* One turn of the replay loop; at its end the lock is released, start()
\* goes on to do_read_header() and the accept handler to do_accept().
JoinLoop(t) ==
    /\ th[t].pc = "join_loop"
    /\ IF th[t].iter = <<>>
       THEN /\ mutex_' = 0
            /\ readOp' = [readOp EXCEPT ![th[t].self] = Append(@, "header")]
            /\ acceptArmed' = TRUE
            /\ th' = [th EXCEPT ![t] = Idle]
       ELSE /\ th' = [th EXCEPT ![t].pc = "sd_exchange",
                                ![t].to = th[t].self,
                                ![t].msg = Head(th[t].iter),
                                ![t].iter = Tail(th[t].iter),
                                ![t].ret = "join_loop"]
            /\ UNCHANGED <<mutex_, readOp, acceptArmed>>
    /\ UNCHANGED <<participants_, recent_messages_, queueVars, read_msg_,
                   writeOps, nAccepted, nframes, nextId, histVars, codec, client>>

(***************************************************************************)
(* ChatRoom::leave                                                         *)
(***************************************************************************)
\* Mutants of Erase: the whole set is cleared; an absent key erases the
\* first element instead.
EraseAll(set, p) == {}
EraseOrFirst(set, p) ==
    IF p \in set \/ set = {} THEN set \ {p}
    ELSE set \ {CHOOSE x \in set : \A y \in set : x <= y}

\* participants_.erase(participant)
Erase(set, p) == set \ {p}

RoomLeave(t) ==
    /\ th[t].pc = "leave_lock"
    /\ mutex_ = 0
    /\ participants_' = Erase(participants_, th[t].self)
    /\ nleave' = [nleave EXCEPT ![th[t].self] = @ + 1]
    /\ th' = Return(t, th[t])
    /\ UNCHANGED <<recent_messages_, mutex_, queueVars, read_msg_, readOp,
                   writeOps, acceptArmed, nAccepted, nframes, nextId,
                   delivered, members, enq, issued, wfailed, rfailed, joinK, codec, client>>

(***************************************************************************)
(* ChatRoom::deliver                                                       *)
(***************************************************************************)
\* Mutant of Evict: >= in place of >.
EvictOffByOne(q) ==
    IF Len(q) >= MAX_RECENT_MSGS
    THEN SubSeq(q, Len(q) - MAX_RECENT_MSGS + 2, Len(q)) ELSE q

\* while (recent_messages_.size() > MAX_RECENT_MSGS) recent_messages_.pop();
RECURSIVE Evict(_)
Evict(q) == IF Len(q) > MAX_RECENT_MSGS THEN Evict(Tail(q)) ELSE q

\* lock_guard; push; evict; the iteration over participants_ begins.
RoomDeliverLock(t) ==
    /\ th[t].pc = "rd_lock"
    /\ mutex_ = 0
    /\ mutex_' = t
    /\ recent_messages_' = Evict(Append(recent_messages_, th[t].msg))
    /\ delivered' = Append(delivered, th[t].msg)
    /\ members' = Append(members, participants_)
    /\ th' = [th EXCEPT ![t].pc = "rd_loop", ![t].rest = participants_]
    /\ UNCHANGED <<participants_, queueVars, read_msg_, readOp, writeOps,
                   acceptArmed, nAccepted, nframes, nextId, enq, issued,
                   wfailed, rfailed, joinK, nleave, codec, client>>

\* One turn of the fan-out loop (the order of a std::set of pointers is the
\* order of the addresses: any order); at its end the lock is released and
\* the read handler goes on to do_read_header().
RoomDeliverLoop(t) ==
    /\ th[t].pc = "rd_loop"
    /\ IF th[t].rest = {}
       THEN /\ mutex_' = 0
            /\ readOp' = [readOp EXCEPT ![th[t].self] = Append(@, "header")]
            /\ th' = [th EXCEPT ![t] = Idle]
       ELSE /\ \E p \in th[t].rest :
                 th' = [th EXCEPT ![t].pc = "sd_exchange",
                                  ![t].to = p,
                                  ![t].rest = th[t].rest \ {p},
                                  ![t].ret = "rd_loop"]
            /\ UNCHANGED <<mutex_, readOp>>
    /\ UNCHANGED <<participants_, recent_messages_, queueVars, read_msg_,
                   writeOps, acceptArmed, nAccepted, nframes, nextId,
                   histVars, codec, client>>

(***************************************************************************)
(* ChatSession::deliver                                                    *)
(***************************************************************************)
\* Mutant of Exchange: the flag is read and not set.
ExchangeLoad(flag, s) == flag

\* bool write_in_progress = writing_.exchange(true);
Exchange(flag, s) == [flag EXCEPT ![s] = TRUE]

SessionDeliverExchange(t) ==
    /\ th[t].pc = "sd_exchange"
    /\ writing_' = Exchange(writing_, th[t].to)
    /\ th' = [th EXCEPT ![t].pc = "sd_lock", ![t].wip = writing_[th[t].to]]
    /\ UNCHANGED <<roomVars, write_msgs_, write_mutex_, read_msg_, readOp,
                   writeOps, acceptArmed, nAccepted, nframes, nextId,
                   histVars, codec, client>>

\* std::lock_guard<std::mutex> lock(write_mutex_);
SessionDeliverLock(t) ==
    /\ th[t].pc = "sd_lock"
    /\ write_mutex_[th[t].to] = 0
    /\ write_mutex_' = [write_mutex_ EXCEPT ![th[t].to] = t]
    /\ th' = [th EXCEPT ![t].pc = "sd_push"]
    /\ UNCHANGED <<roomVars, write_msgs_, writing_, read_msg_, readOp,
                   writeOps, acceptArmed, nAccepted, nframes, nextId,
                   histVars, codec, client>>

\* Mutant of Push: the message goes to the head of the queue.
PushFront(q, m) == <<m>> \o q

\* write_msgs_.push(msg); the lock is released; do_write() unless a write
\* was in progress.
Push(q, m) == Append(q, m)

\* Mutant of SessionDeliverPush: do_write() is called inside the scope of
\* the lock_guard.
SessionDeliverPushLocked(t) ==
    LET s == th[t].to
    IN  /\ th[t].pc = "sd_push"
        /\ write_msgs_' = [write_msgs_ EXCEPT ![s] = Push(@, th[t].msg)]
        /\ write_mutex_' = IF th[t].wip THEN [write_mutex_ EXCEPT ![s] = 0]
                           ELSE write_mutex_
        /\ enq' = [enq EXCEPT ![s] = Append(@, th[t].msg)]
        /\ th' = IF th[t].wip THEN Return(t, th[t])
                 ELSE [th EXCEPT ![t].pc = "dw_lock"]
        /\ UNCHANGED <<roomVars, writing_, read_msg_, readOp, writeOps,
                       acceptArmed, nAccepted, nframes, nextId, delivered,
                       members, issued, wfailed, rfailed, joinK, nleave, codec, client>>

SessionDeliverPush(t) ==
    LET s == th[t].to
    IN  /\ th[t].pc = "sd_push"
        /\ write_msgs_' = [write_msgs_ EXCEPT ![s] = Push(@, th[t].msg)]
        /\ write_mutex_' = [write_mutex_ EXCEPT ![s] = 0]
        /\ enq' = [enq EXCEPT ![s] = Append(@, th[t].msg)]
        /\ th' = IF th[t].wip THEN Return(t, th[t])
                 ELSE [th EXCEPT ![t].pc = "dw_lock"]
        /\ UNCHANGED <<roomVars, writing_, read_msg_, readOp, writeOps,
                       acceptArmed, nAccepted, nframes, nextId, delivered, members,
                       issued, wfailed, rfailed, joinK, nleave, codec, client>>

(***************************************************************************)
(* ChatSession::do_write                                                   *)
(***************************************************************************)
DoWriteLock(t) ==
    /\ th[t].pc = "dw_lock"
    /\ write_mutex_[th[t].to] = 0
    /\ write_mutex_' = [write_mutex_ EXCEPT ![th[t].to] = t]
    /\ th' = [th EXCEPT ![t].pc = "dw_body"]
    /\ UNCHANGED <<roomVars, write_msgs_, writing_, read_msg_, readOp,
                   writeOps, acceptArmed, nAccepted, nframes, nextId,
                   histVars, codec, client>>

\* async_write is handed boost::asio::buffer(msg.data, msg.length()), where
\* msg is a variable local to do_write.  Bytes the operation takes before
\* do_write returns are the message's; afterwards the storage is gone and
\* holds anything (the indeterminate bytes of NewMessage).
BufferRead(m) == {m.data, NewMessage.data}

\* Under the lock: an empty queue clears writing_ and returns; otherwise the
\* head is dequeued, the lock released and the async_write started.
DoWriteBody(t) ==
    LET s == th[t].to
    IN  /\ th[t].pc = "dw_body"
        /\ write_mutex_' = [write_mutex_ EXCEPT ![s] = 0]
        /\ IF write_msgs_[s] = <<>>
           THEN /\ writing_' = [writing_ EXCEPT ![s] = FALSE]
                /\ UNCHANGED <<write_msgs_, writeOps, issued>>
           ELSE /\ write_msgs_' = [write_msgs_ EXCEPT ![s] = Tail(@)]
                /\ \E sent \in BufferRead(Head(write_msgs_[s])) :
                     writeOps' = [writeOps EXCEPT
                                    ![s] = Append(@, [msg |-> Head(write_msgs_[s]),
                                                      sent |-> sent])]
                /\ issued' = [issued EXCEPT ![s] = Append(@, Head(write_msgs_[s]))]
                /\ UNCHANGED writing_
        /\ th' = Return(t, th[t])
        /\ UNCHANGED <<roomVars, read_msg_, readOp, acceptArmed, nAccepted,
                       nframes, nextId, delivered, members, enq, wfailed, rfailed,
                       joinK, nleave, codec, client>>

\* The completion handler of an async_write.
\* Mutant of WriteHandler: the failure branch clears writing_ before it
\* calls room_.leave().
WriteHandlerClearFirst(t) ==
    /\ IdleThread(t)
    /\ \E s \in Sessions, ec \in BOOLEAN :
         /\ writeOps[s] # <<>>
         /\ \E i \in 1..Len(writeOps[s]) :
              writeOps' = [writeOps EXCEPT ![s] = RemoveAt(@, i)]
         /\ IF ~ec
            THEN /\ th' = [th EXCEPT ![t] = [Idle EXCEPT !.pc = "dw_lock",
                                                          !.self = s, !.to = s]]
                 /\ UNCHANGED <<wfailed, writing_>>
            ELSE /\ th' = [th EXCEPT ![t] = [Idle EXCEPT !.pc = "leave_lock",
                                                          !.self = s, !.to = s]]
                 /\ wfailed' = [wfailed EXCEPT ![s] = TRUE]
                 /\ writing_' = [writing_ EXCEPT ![s] = FALSE]
    /\ UNCHANGED <<roomVars, write_msgs_, write_mutex_, read_msg_, readOp,
                   acceptArmed, nAccepted, nframes, nextId, delivered, members,
                   enq, issued, rfailed, joinK, nleave, codec, client>>

WriteHandler(t) ==
    /\ IdleThread(t)
    /\ \E s \in Sessions, ec \in BOOLEAN :
         /\ writeOps[s] # <<>>
         /\ \E i \in 1..Len(writeOps[s]) :
              writeOps' = [writeOps EXCEPT ![s] = RemoveAt(@, i)]
         /\ IF ~ec
            THEN /\ th' = [th EXCEPT ![t] = [Idle EXCEPT !.pc = "dw_lock",
                                                          !.self = s, !.to = s]]
                 /\ UNCHANGED wfailed
            ELSE /\ th' = [th EXCEPT ![t] = [Idle EXCEPT !.pc = "leave_lock",
                                                          !.self = s, !.to = s,
                                                          !.ret = "wf_clear"]]
                 /\ wfailed' = [wfailed EXCEPT ![s] = TRUE]
    /\ UNCHANGED <<roomVars, queueVars, read_msg_, readOp, acceptArmed,
                   nAccepted, nframes, nextId, delivered, members, enq, issued, rfailed,
                   joinK, nleave, codec, client>>

\* After room_.leave() in the failure branch: writing_ = false.
WriteFailClear(t) ==
    /\ th[t].pc = "wf_clear"
    /\ writing_' = [writing_ EXCEPT ![th[t].self] = FALSE]
    /\ th' = [th EXCEPT ![t] = Idle]
    /\ UNCHANGED <<roomVars, write_msgs_, write_mutex_, read_msg_, readOp,
                   writeOps, acceptArmed, nAccepted, nframes, nextId,
                   histVars, codec, client>>

(***************************************************************************)
(* ChatSession::do_read_header and do_read_body: the completion handlers   *)
(***************************************************************************)
\* headers: what the peers may send; maxFrames: how many frames in all.
ReadHeaderHandler(t, headers, maxFrames) ==
    /\ IdleThread(t)
    /\ \E s \in Sessions, ec \in BOOLEAN, h \in headers :
         LET got == [read_msg_[s] EXCEPT
                       !.data = h \o SubSeq(@, HEADER_SIZE + 1, Len(@))]
         IN  \E i \in 1..Len(readOp[s]) :
             /\ readOp[s][i] = "header"
             /\ IF ec
                THEN /\ readOp' = [readOp EXCEPT ![s] = RemoveAt(@, i)]
                     /\ th' = [th EXCEPT ![t] = [Idle EXCEPT !.pc = "leave_lock",
                                                              !.self = s]]
                     /\ rfailed' = [rfailed EXCEPT ![s] = TRUE]
                     /\ UNCHANGED <<read_msg_, nframes>>
                ELSE /\ read_msg_' = [read_msg_ EXCEPT ![s] = decode_header_msg(got)]
                     /\ UNCHANGED rfailed
                     /\ IF decode_header_ok(got)
                        THEN /\ nframes < maxFrames
                             /\ nframes' = nframes + 1
                             /\ readOp' = [readOp EXCEPT
                                             ![s] = Append(RemoveAt(@, i), "body")]
                             /\ UNCHANGED th
                        ELSE /\ readOp' = [readOp EXCEPT ![s] = RemoveAt(@, i)]
                             /\ th' = [th EXCEPT ![t] = [Idle EXCEPT !.pc = "leave_lock",
                                                                      !.self = s]]
                             /\ UNCHANGED nframes
    /\ UNCHANGED <<roomVars, queueVars, writeOps, acceptArmed, nAccepted,
                   nextId, delivered, members, enq, issued, wfailed, joinK, nleave,
                   codec, client>>

\* Mutant of Response: the std::min is left out.
ResponseNoMin(m) ==
    encode_header([data |-> <<"?", "?", "?", "?",
                              [m.data[HEADER_SIZE + 1] EXCEPT
                                  !.prefix = PREFIX_LEN, !.kept = m.body_length]>>,
                   body_length |-> PREFIX_LEN + m.body_length])

\* The message do_read_body's handler builds from the frame just read:
\* formatted_msg is the prefix and the body_length bytes of read_msg_'s body;
\* the first min(formatted_msg.size(), MAX_BODY_SIZE) bytes of it are copied
\* into a new Message and the header encoded.
Response(m) ==
    LET size == PREFIX_LEN + m.body_length
        n == Min(size, MAX_BODY_SIZE)
        fromPrefix == Min(PREFIX_LEN, n)
    IN  encode_header([data |-> <<"?", "?", "?", "?",
                                  [m.data[HEADER_SIZE + 1] EXCEPT
                                      !.prefix = fromPrefix,
                                      !.kept = n - fromPrefix]>>,
                       body_length |-> n])

\* Mutant of ReadBodyHandler: do_read_header() is called after the error
\* branch too.
ReadBodyHandlerRearm(t) ==
    /\ IdleThread(t)
    /\ \E s \in Sessions, ec \in BOOLEAN :
         LET got == [read_msg_[s] EXCEPT
                       !.data = Header(read_msg_[s])
                                \o <<FrameBytes(s, nextId, read_msg_[s].body_length)>>]
         IN  \E i \in 1..Len(readOp[s]) :
             /\ readOp[s][i] = "body"
             /\ IF ec
                THEN /\ readOp' = [readOp EXCEPT
                                     ![s] = Append(RemoveAt(@, i), "header")]
                     /\ th' = [th EXCEPT ![t] = [Idle EXCEPT !.pc = "leave_lock",
                                                              !.self = s]]
                     /\ rfailed' = [rfailed EXCEPT ![s] = TRUE]
                     /\ UNCHANGED <<read_msg_, nextId>>
                ELSE /\ readOp' = [readOp EXCEPT ![s] = RemoveAt(@, i)]
                     /\ read_msg_' = [read_msg_ EXCEPT ![s] = got]
                     /\ UNCHANGED rfailed
                     /\ nextId' = nextId + 1
                     /\ th' = [th EXCEPT ![t] = [Idle EXCEPT !.pc = "rd_lock",
                                                              !.self = s,
                                                              !.msg = Response(got)]]
    /\ UNCHANGED <<roomVars, queueVars, writeOps, acceptArmed, nAccepted,
                   nframes, delivered, members, enq, issued, wfailed, joinK, nleave,
                   codec, client>>

ReadBodyHandler(t) ==
    /\ IdleThread(t)
    /\ \E s \in Sessions, ec \in BOOLEAN :
         LET got == [read_msg_[s] EXCEPT
                       !.data = Header(read_msg_[s])
                                \o <<FrameBytes(s, nextId, read_msg_[s].body_length)>>]
         IN  \E i \in 1..Len(readOp[s]) :
             /\ readOp[s][i] = "body"
             /\ readOp' = [readOp EXCEPT ![s] = RemoveAt(@, i)]
             /\ IF ec
                THEN /\ th' = [th EXCEPT ![t] = [Idle EXCEPT !.pc = "leave_lock",
                                                              !.self = s]]
                     /\ rfailed' = [rfailed EXCEPT ![s] = TRUE]
                     /\ UNCHANGED <<read_msg_, nextId>>
                ELSE /\ read_msg_' = [read_msg_ EXCEPT ![s] = got]
                     /\ UNCHANGED rfailed
                     /\ nextId' = nextId + 1
                     /\ th' = [th EXCEPT ![t] = [Idle EXCEPT !.pc = "rd_lock",
                                                              !.self = s,
                                                              !.msg = Response(got)]]
    /\ UNCHANGED <<roomVars, queueVars, writeOps, acceptArmed, nAccepted,
                   nframes, delivered, members, enq, issued, wfailed, joinK, nleave,
                   codec, client>>

(***************************************************************************)
(* The server                                                              *)
(***************************************************************************)
\* workers: the threads that called io_context.run().
ServerNext(workers, headers, maxFrames) ==
    \E t \in workers :
        \/ AcceptHandler(t)
        \/ JoinLock(t)
        \/ JoinLoop(t)
        \/ RoomLeave(t)
        \/ RoomDeliverLock(t)
        \/ RoomDeliverLoop(t)
        \/ SessionDeliverExchange(t)
        \/ SessionDeliverLock(t)
        \/ SessionDeliverPush(t)
        \/ DoWriteLock(t)
        \/ DoWriteBody(t)
        \/ WriteHandler(t)
        \/ WriteFailClear(t)
        \/ ReadHeaderHandler(t, headers, maxFrames)
        \/ ReadBodyHandler(t)

Next == ServerNext(Threads, InHeaders, MaxFrames)

Spec == Init /\ [][Next]_vars

\* The server with one worker thread (hardware_concurrency() = 1).
OneWorker == {t \in Threads : \A u \in Threads : t <= u}
OneWorkerNext == ServerNext(OneWorker, InHeaders, MaxFrames)

SpecOneWorker == Init /\ [][OneWorkerNext]_vars

\* The server against peers that send every kind of header.
WireNext == ServerNext(Threads, WireHeaders, MaxWireFrames)

SpecWire == Init /\ [][WireNext]_vars

\* A step of the handler thread t is executing.
Running(t) ==
    \/ JoinLock(t)
    \/ JoinLoop(t)
    \/ RoomLeave(t)
    \/ RoomDeliverLock(t)
    \/ RoomDeliverLoop(t)
    \/ SessionDeliverExchange(t)
    \/ SessionDeliverLock(t)
    \/ SessionDeliverPush(t)
    \/ DoWriteLock(t)
    \/ DoWriteBody(t)
    \/ WriteFailClear(t)

\* The same, with the worker threads scheduled: a thread inside a handler
\* goes on running, and gets a mutex it waits for once the mutex stays free.
\* Nothing is assumed of the peers or of the completion of I/O.
SpecWireLive == Init /\ [][WireNext]_vars /\ \A t \in Threads : WF_vars(Running(t))

(***************************************************************************)
(* The codec alone: a Message with a body of n bytes is encoded, then its  *)
(* header decoded (specification SpecCodec).  The body bytes are digits,   *)
(* so that a parse running past the header would show.                     *)
(***************************************************************************)
CodecBody(n) == [i \in 1..n |-> DigitChar(i % 10)]

CodecInit ==
    /\ ServerInit
    /\ client = ClientOff
    /\ \E n \in 0..MAX_BODY_SIZE :
         codec = [pc |-> "new",
                  msg |-> [data |-> <<"?", "?", "?", "?">> \o CodecBody(n),
                           body_length |-> n],
                  body |-> CodecBody(n), n |-> n, ok |-> FALSE]

CodecEncode ==
    /\ codec.pc = "new"
    /\ codec' = [codec EXCEPT !.pc = "encoded", !.msg = encode_header(@)]
    /\ UNCHANGED <<roomVars, queueVars, read_msg_, readOp, writeOps,
                   acceptArmed, nAccepted, nframes, nextId, th, histVars, client>>

CodecDecode ==
    /\ codec.pc = "encoded"
    /\ codec' = [codec EXCEPT !.pc = "decoded",
                              !.msg = decode_header_msg(@),
                              !.ok = decode_header_ok(codec.msg)]
    /\ UNCHANGED <<roomVars, queueVars, read_msg_, readOp, writeOps,
                   acceptArmed, nAccepted, nframes, nextId, th, histVars, client>>

CodecNext == CodecEncode \/ CodecDecode

SpecCodec == CodecInit /\ [][CodecNext]_vars

(***************************************************************************)
(* The server late in a run (specification SpecBacklog): the sessions      *)
(* 1..NSessions-1 joined an empty room, sent frames with empty bodies      *)
(* until the room had delivered MAX_RECENT_MSGS - BacklogSlack or more     *)
(* messages, saw them all written and disconnected; the last connection    *)
(* is still to come.                                                       *)
(***************************************************************************)
BacklogSlack == 1

PriorMessage(i) ==
    Response([data |-> <<"?", "?", "?", "?", FrameBytes(1, i, 0)>>, body_length |-> 0])
Prior(n) == [i \in 1..n |-> PriorMessage(i)]
Gone == 1..(NSessions - 1)

BacklogInit ==
    \E n \in (MAX_RECENT_MSGS - BacklogSlack)..MAX_RECENT_MSGS :
        /\ participants_ = {}
        /\ recent_messages_ = Prior(n)
        /\ mutex_ = 0
        /\ read_msg_ = [s \in Sessions |-> NewMessage]
        /\ write_msgs_ = [s \in Sessions |-> <<>>]
        /\ write_mutex_ = [s \in Sessions |-> 0]
        /\ writing_ = [s \in Sessions |-> FALSE]
        /\ readOp = [s \in Sessions |-> <<>>]
        /\ writeOps = [s \in Sessions |-> <<>>]
        /\ acceptArmed = TRUE
        /\ nAccepted = NSessions - 1
        /\ nframes = 0
        /\ nextId = n + 1
        /\ th = [t \in Threads |-> Idle]
        /\ delivered = Prior(n)
        /\ members = [i \in 1..n |-> Gone]
        /\ enq = [s \in Sessions |-> IF s \in Gone THEN Prior(n) ELSE <<>>]
        /\ issued = [s \in Sessions |-> IF s \in Gone THEN Prior(n) ELSE <<>>]
        /\ wfailed = [s \in Sessions |-> FALSE]
        /\ rfailed = [s \in Sessions |-> s \in Gone]
        /\ joinK = [s \in Sessions |-> 0]
        /\ nleave = [s \in Sessions |-> IF s \in Gone THEN 1 ELSE 0]
        /\ codec = CodecIdle
        /\ client = ClientOff

BacklogNext == ServerNext(Threads, InHeaders, MaxBacklogFrames)

SpecBacklog == BacklogInit /\ [][BacklogNext]_vars

(***************************************************************************)
(* The chat client (client.cpp, specification SpecClient): the main thread *)
(* reads lines and calls ChatClient::write; the I/O thread runs the        *)
(* completion handlers.  A message is the number of the line it carries.   *)
(***************************************************************************)
MaxLines == 3

serverVars == <<roomVars, queueVars, read_msg_, readOp, writeOps, acceptArmed,
                nAccepted, nframes, nextId, th, histVars, codec>>

\* After the constructor and connect(): an async_connect is outstanding, the
\* main thread is at std::getline, the I/O thread in io_context.run().
ClientNew ==
    [ClientOff EXCEPT !.connecting = TRUE,
                      !.pc = [who \in {"main", "io"} |->
                                 IF who = "main" THEN "input" ELSE "idle"]]

ClientInit == ServerInit /\ codec = CodecIdle /\ client = ClientNew

\* The error codes an operation on the socket can complete with: an
\* operation on a closed socket fails.
ClientErrors == IF client.closed THEN {TRUE} ELSE BOOLEAN

\* The handler of async_connect.
ConnectHandler ==
    /\ client.pc["io"] = "idle"
    /\ client.connecting
    /\ \E ec \in BOOLEAN :
         client' = IF ec THEN [client EXCEPT !.connecting = FALSE]
                   ELSE [client EXCEPT !.connecting = FALSE,
                                       !.connected_ = TRUE,
                                       !.reading = TRUE]
    /\ UNCHANGED serverVars

\* The handlers of do_read_header and do_read_body: the loop goes on, or the
\* client disconnects and closes the socket.
ClientReadHandler ==
    /\ client.pc["io"] = "idle"
    /\ client.reading
    /\ \E ec \in ClientErrors :
         client' = IF ec THEN [client EXCEPT !.reading = FALSE,
                                             !.connected_ = FALSE,
                                             !.closed = TRUE]
                   ELSE client
    /\ UNCHANGED serverVars

\* main: std::getline gives a line; the loop ends when is_connected() is
\* false, else the Message is built and client.write(msg) called.
MainGetLine ==
    /\ client.pc["main"] = "input"
    /\ client.nlines < MaxLines
    /\ client' = IF ~client.connected_
                 THEN [client EXCEPT !.pc["main"] = "done"]
                 ELSE [client EXCEPT !.pc["main"] = "w_check",
                                     !.msg = client.nlines + 1,
                                     !.nlines = client.nlines + 1]
    /\ UNCHANGED serverVars

\* ChatClient::write: if (!connected_) return;
ClientWriteCheck ==
    /\ client.pc["main"] = "w_check"
    /\ client' = IF ~client.connected_
                 THEN [client EXCEPT !.pc["main"] = "input"]
                 ELSE [client EXCEPT !.pc["main"] = "w_exchange",
                                     !.passed = Append(@, client.msg)]
    /\ UNCHANGED serverVars

\* bool write_in_progress = writing_.exchange(true);
ClientWriteExchange ==
    /\ client.pc["main"] = "w_exchange"
    /\ client' = [client EXCEPT !.pc["main"] = "w_lock",
                                !.wip = client.writing_,
                                !.writing_ = TRUE]
    /\ UNCHANGED serverVars

ClientWriteLock ==
    /\ client.pc["main"] = "w_lock"
    /\ client.write_mutex_ = "free"
    /\ client' = [client EXCEPT !.pc["main"] = "w_push", !.write_mutex_ = "main"]
    /\ UNCHANGED serverVars

\* write_msgs_.push(msg); the lock is released; do_write() unless a write
\* was in progress.
ClientWritePush ==
    /\ client.pc["main"] = "w_push"
    /\ client' = [client EXCEPT
                    !.write_msgs_ = Append(@, client.msg),
                    !.write_mutex_ = "free",
                    !.pc["main"] = IF client.wip THEN "input" ELSE "dw_lock"]
    /\ UNCHANGED serverVars

\* ChatClient::do_write, on the thread that called it.
ClientDoWriteLock(who) ==
    /\ client.pc[who] = "dw_lock"
    /\ client.write_mutex_ = "free"
    /\ client' = [client EXCEPT !.pc[who] = "dw_body", !.write_mutex_ = who]
    /\ UNCHANGED serverVars

\* The bytes async_write takes from the buffer over do_write's local msg:
\* the message's, or indeterminate ones (0).
ClientBufferRead(m) == {m, 0}

ClientDoWriteBody(who) ==
    /\ client.pc[who] = "dw_body"
    /\ LET back == IF who = "main" THEN "input" ELSE "idle"
       IN  IF client.write_msgs_ = <<>>
           THEN client' = [client EXCEPT !.writing_ = FALSE,
                                         !.write_mutex_ = "free",
                                         !.pc[who] = back]
           ELSE \E sent \in ClientBufferRead(Head(client.write_msgs_)) :
                  client' = [client EXCEPT
                               !.write_msgs_ = Tail(@),
                               !.writeOps = Append(@, [msg |-> Head(client.write_msgs_),
                                                       sent |-> sent]),
                               !.issued = Append(@, Head(client.write_msgs_)),
                               !.write_mutex_ = "free",
                               !.pc[who] = back]
    /\ UNCHANGED serverVars

\* The completion handler of async_write.
ClientWriteHandler ==
    /\ client.pc["io"] = "idle"
    /\ \E i \in 1..Len(client.writeOps), ec \in ClientErrors :
         client' = IF ~ec
                   THEN [client EXCEPT !.writeOps = RemoveAt(@, i),
                                       !.pc["io"] = "dw_lock"]
                   ELSE [client EXCEPT !.writeOps = RemoveAt(@, i),
                                       !.connected_ = FALSE,
                                       !.closed = TRUE,
                                       !.wfailed = TRUE,
                                       !.pc["io"] = "wf_clear"]
    /\ UNCHANGED serverVars

\* The end of the failure branch: writing_ = false.
ClientWriteFailClear ==
    /\ client.pc["io"] = "wf_clear"
    /\ client' = [client EXCEPT !.writing_ = FALSE, !.pc["io"] = "idle"]
    /\ UNCHANGED serverVars

ClientNext ==
    \/ ConnectHandler
    \/ ClientReadHandler
    \/ MainGetLine
    \/ ClientWriteCheck
    \/ ClientWriteExchange
    \/ ClientWriteLock
    \/ ClientWritePush
    \/ \E who \in {"main", "io"} : ClientDoWriteLock(who)
    \/ \E who \in {"main", "io"} : ClientDoWriteBody(who)
    \/ ClientWriteHandler
    \/ ClientWriteFailClear

SpecClient == ClientInit /\ [][ClientNext]_vars

(***************************************************************************)
(* Properties                                                              *)
(***************************************************************************)
IsPrefix(p, q) == Len(p) <= Len(q) /\ SubSeq(q, 1, Len(p)) = p

\* The threads inside ChatSession::deliver or do_write for session s.
InDeliver(s) == {t \in Threads : th[t].to = s /\ th[t].pc \in {"sd_exchange", "sd_lock", "sd_push"}}
InDoWrite(s) == {t \in Threads : th[t].to = s /\ th[t].pc \in {"dw_lock", "dw_body"}}

\* C1: on a session whose writes have all succeeded, whenever no deliver
\* call and no write handler of the session is executing, a non-empty
\* write_msgs_ has a write in flight with writing_ set.
C1_QueueDrains ==
    \A s \in Sessions :
        (/\ ~wfailed[s]
         /\ InDeliver(s) = {}
         /\ InDoWrite(s) = {}
         /\ write_msgs_[s] # <<>>)
        => (writing_[s] /\ writeOps[s] # <<>>)

\* C2: a session has at most one drainer: the async_writes in flight and
\* the threads inside do_write for it number at most one.
C2_OneWriteInFlight ==
    \A s \in Sessions : Len(writeOps[s]) + Cardinality(InDoWrite(s)) <= 1

\* C2's case: a deliver call pushes to a session while its write is in flight.
C2_Witness ==
    \E s \in Sessions, t \in Threads :
        /\ Len(writeOps[s]) = 1
        /\ th[t].to = s /\ th[t].pc = "sd_push" /\ th[t].wip
        /\ th[t].self # s

InSeq(m, q) == \E i \in 1..Len(q) : q[i] = m
Before(q, m1, m2) == \E i, j \in 1..Len(q) : i < j /\ q[i] = m1 /\ q[j] = m2

\* C3: for every session, if ChatRoom::deliver took m1 before m2, both were
\* enqueued to the session and the write of m2 has been issued, then the
\* write of m1 was issued before it; and no write is issued twice.
C3_PerRecipientOrder ==
    \A s \in Sessions :
        /\ \A a, b \in 1..Len(delivered) :
               (a < b /\ InSeq(delivered[a], enq[s]) /\ InSeq(delivered[b], issued[s]))
               => Before(issued[s], delivered[a], delivered[b])
        /\ \A i, j \in 1..Len(issued[s]) : i # j => issued[s][i] # issued[s][j]

\* C3's case: on one session a write has been issued while two later
\* deliveries wait in its queue, with every session a member of the room.
C3_Witness ==
    \E s \in Sessions :
        /\ Len(issued[s]) >= 1
        /\ Len(write_msgs_[s]) >= 2
        /\ \A r \in Sessions : nframes > 0 /\ r \in participants_

\* C4: a session that joined after K <= MAX_RECENT_MSGS deliveries is
\* enqueued the room's deliveries in order, each once: what it has been
\* enqueued is a prefix of the deliveries, and all of them whenever it is a
\* member and no join or deliver is inside the room's critical section.
C4_JoinSnapshot ==
    \A s \in Sessions :
        joinK[s] <= MAX_RECENT_MSGS
        => /\ IsPrefix(enq[s], delivered)
           /\ (s \in participants_ /\ mutex_ = 0) => enq[s] = delivered

\* C4's case: a session joined after at least one delivery, was replayed
\* the backlog, and has been fanned out a later delivery.
C4_Witness ==
    \E s \in Sessions :
        /\ s \in participants_ /\ mutex_ = 0
        /\ joinK[s] >= 1
        /\ Len(delivered) > joinK[s]
        /\ Len(enq[s]) = Len(delivered)

LastN(q, n) == SubSeq(q, Len(q) - n + 1, Len(q))

\* C5: recent_messages_ is the last min(N, MAX_RECENT_MSGS) of the N
\* messages delivered, in call order, never longer than MAX_RECENT_MSGS
\* outside the critical section, and only ChatRoom::deliver changes it.
C5_BacklogBound ==
    /\ [](/\ Len(recent_messages_) <= MAX_RECENT_MSGS
          /\ recent_messages_ =
                 LastN(delivered, Min(Len(delivered), MAX_RECENT_MSGS)))
    /\ [][recent_messages_' # recent_messages_
          => \E t \in Threads : th[t].pc = "rd_lock" /\ th'[t].pc = "rd_loop"]_vars

\* C5's case: more than MAX_RECENT_MSGS deliveries, with a join and a leave.
C5_Witness ==
    /\ Len(delivered) > MAX_RECENT_MSGS
    /\ \E s \in Sessions : joinK[s] > 0 /\ nleave[s] > 0 /\ joinK[s] < Len(delivered)

\* The thread running the accept handler (inside start()), if any.
AcceptRunning ==
    \E t \in Threads : th[t].pc \in {"join_lock", "join_loop"} \/ th[t].ret = "join_loop"

\* The thread of session s's write-failure handler is about to call leave.
FailureLeaving(s) ==
    \E t \in Threads : th[t].self = s /\ th[t].pc = "leave_lock" /\ th[t].ret = "wf_clear"

\* C6: a write failure on session a removes a, and a leave removes only the
\* session it is called for; every other member goes on being enqueued
\* every delivery made since it joined; the accept loop stays armed.
C6_FanOutIsolation ==
    /\ [](\A a \in Sessions :
            wfailed[a] =>
              /\ (~FailureLeaving(a) => a \notin participants_)
              /\ \A b \in Sessions \ {a} :
                   (b \in participants_ /\ mutex_ = 0)
                   => \A i \in (joinK[b] + 1)..Len(delivered) : InSeq(delivered[i], enq[b])
              /\ (acceptArmed \/ AcceptRunning))
    /\ [][\A b \in participants_ \ participants_' :
             \E t \in Threads : /\ th[t].pc = "leave_lock" /\ th'[t].pc # "leave_lock"
                                /\ th[t].self = b]_vars

\* C6's case: a's write failed and a left; member b was afterwards enqueued
\* a delivery that a was not.
C6_Witness ==
    \E a \in Sessions, b \in Sessions :
        /\ a # b /\ wfailed[a] /\ a \notin participants_ /\ joinK[a] = 0
        /\ b \in participants_ /\ mutex_ = 0
        /\ \E i \in 1..Len(delivered) :
               InSeq(delivered[i], enq[b]) /\ ~InSeq(delivered[i], enq[a])

\* C7: ChatRoom::leave for a session that is not a member changes neither
\* the membership set nor the backlog.
C7_LeaveIdempotent ==
    [][\A t \in Threads :
          (/\ th[t].pc = "leave_lock" /\ th'[t].pc # "leave_lock"
           /\ th[t].self \notin participants_)
          => (participants_' = participants_ /\ recent_messages_' = recent_messages_)]_vars

\* C7's case: a session's second leave has completed while a session that
\* joined before it is still a member.
C7_Witness ==
    \E s, b \in Sessions :
        /\ nleave[s] = 2
        /\ b < s /\ b \in participants_

\* A header as the wire format has it: decimal digits, right-justified,
\* padded on the left with spaces or zeros, no sign.
ValidDecimalHeader(h) ==
    /\ Len(h) = HEADER_SIZE
    /\ \A i \in 1..Len(h) : IsDigit(h[i]) \/ h[i] = " "
    /\ IsDigit(h[Len(h)])
    /\ \A i \in 1..(Len(h) - 1) : IsDigit(h[i]) => IsDigit(h[i + 1])
DeclaredLength(h) == ParseDigits(SkipSpace(h), 0)

\* C8: a session reads a body only after a header that is a valid decimal
\* length.
C8_GarbageHeaderFatal ==
    \A s \in Sessions :
        readOp[s] = <<"body">> => ValidDecimalHeader(Header(read_msg_[s]))

\* C9: encode_header then decode_header on a message with a body of n bytes,
\* 0 <= n <= MAX_BODY_SIZE, succeeds, yields body_length n, and the body
\* bytes stay what they were after each of the two.
C9_RoundTrip ==
    /\ codec.pc = "encoded" =>
          (codec.msg.body_length = codec.n /\ Body(codec.msg) = codec.body)
    /\ codec.pc = "decoded" =>
          (codec.ok /\ codec.msg.body_length = codec.n /\ Body(codec.msg) = codec.body)

\* C9's case: the round trip of the longest body.
C9_Witness == codec.pc = "decoded" /\ codec.n = MAX_BODY_SIZE

\* The header handler of session s completes without a read error.
HeaderDone(s) == readOp[s] = <<"header">> /\ readOp'[s] # <<"header">> /\ ~rfailed'[s]
Delivering(s) ==
    \E t \in Threads : th[t].self = s /\ (th[t].pc \in {"rd_lock", "rd_loop"} \/ th[t].ret = "rd_loop")

\* C10: a header declaring MAX_BODY_SIZE is accepted and the body read
\* started; a header declaring more makes the session leave, and a session
\* whose header declared more reads no body and delivers nothing.
C10_LengthBoundary ==
    /\ [][\A s \in Sessions :
             HeaderDone(s) =>
               LET h == Header(read_msg_'[s])
               IN  /\ (ValidDecimalHeader(h) /\ DeclaredLength(h) = MAX_BODY_SIZE)
                      => (readOp'[s] = <<"body">> /\ read_msg_'[s].body_length = MAX_BODY_SIZE)
                   /\ (ValidDecimalHeader(h) /\ DeclaredLength(h) > MAX_BODY_SIZE)
                      => /\ readOp'[s] = <<>>
                         /\ \E t \in Threads : th'[t].pc = "leave_lock" /\ th'[t].self = s]_vars
    /\ [](\A s \in Sessions :
            read_msg_[s].body_length > MAX_BODY_SIZE
            => (readOp[s] = <<>> /\ ~Delivering(s)))

\* C10's case: one session reads the body of a frame of MAX_BODY_SIZE bytes,
\* another has left on a header declaring MAX_BODY_SIZE + 1.
C10_Witness ==
    \E s1, s2 \in Sessions :
        /\ readOp[s1] = <<"body">> /\ read_msg_[s1].body_length = MAX_BODY_SIZE
        /\ read_msg_[s2].body_length = MAX_BODY_SIZE + 1
        /\ s2 \notin participants_ /\ nleave[s2] = 1

Count(m, q) == Cardinality({i \in 1..Len(q) : q[i] = m})
Bytes(m) == m.data[HEADER_SIZE + 1]

\* The fan-out loop of the i-th ChatRoom::deliver call is still running.
FanningOut(i) ==
    \E t \in Threads :
        th[t].msg = delivered[i] /\ (th[t].pc = "rd_loop" \/ th[t].ret = "rd_loop")

\* C11: every complete inbound frame is handed to ChatRoom::deliver once and
\* no frame twice; the message's body is the prefix and the frame's body cut
\* to MAX_BODY_SIZE bytes in all, its header the decimal of that length; and
\* every session that was a member at the call is enqueued the message once
\* (never twice, and once when the fan-out loop has ended).
C11_TransformFanOut ==
    /\ \A i \in 1..Len(delivered) :
          LET m == delivered[i]
              b == Bytes(m)
          IN  /\ b.prefix = PREFIX_LEN
              /\ b.kept = Min(b.len, MAX_BODY_SIZE - PREFIX_LEN)
              /\ m.body_length = b.prefix + b.kept
              /\ ValidDecimalHeader(Header(m))
              /\ DeclaredLength(Header(m)) = m.body_length
              /\ \A j \in 1..Len(delivered) :
                     j # i => Bytes(delivered[j]).frame # b.frame
              /\ \A s \in members[i] :
                     /\ Count(m, enq[s]) <= 1
                     /\ ~FanningOut(i) => Count(m, enq[s]) = 1
    /\ \A id \in 1..(nextId - 1) :
          \/ \E i \in 1..Len(delivered) : Bytes(delivered[i]).frame = id
          \/ \E t \in Threads : th[t].pc = "rd_lock" /\ Bytes(th[t].msg).frame = id

\* C11's case: a frame whose decorated body had to be cut has been fanned
\* out to every session, its sender among them.
C11_Witness ==
    \E i \in 1..Len(delivered) :
        /\ Bytes(delivered[i]).len = MAX_BODY_SIZE
        /\ Bytes(delivered[i]).kept < MAX_BODY_SIZE
        /\ members[i] = Sessions
        /\ Bytes(delivered[i]).from \in members[i]
        /\ ~FanningOut(i)
        /\ \A s \in Sessions : Count(delivered[i], enq[s]) = 1

\* No handler is running and no write is in flight: the server waits for
\* its peers.
Quiescent ==
    /\ \A t \in Threads : th[t].pc = "idle"
    /\ \A s \in Sessions : writeOps[s] = <<>>

\* C12: what the server has written to a session when it comes to rest does
\* not depend on the number of workers.  With one worker every message
\* enqueued to a session whose writes succeed has been written by then
\* (this formula holds of SpecOneWorker); the same is claimed of any number.
C12_WorkerIndependence ==
    Quiescent => \A s \in Sessions : ~wfailed[s] => issued[s] = enq[s]

\* The write-failure handler of session s has run to its end.
WriteFailureHandled(s) ==
    /\ wfailed[s]
    /\ ~\E t \in Threads : th[t].self = s /\ (th[t].pc = "wf_clear" \/ th[t].ret = "wf_clear")

\* C13: once a write of a session has failed and its handler has made the
\* session leave, no body read of that session completes into a call of
\* ChatRoom::deliver.
C13_WriteFailureKills ==
    [][\A t \in Threads :
          (th[t].pc = "idle" /\ th'[t].pc = "rd_lock")
          => ~WriteFailureHandled(th'[t].self)]_vars

\* The read loop of session s has ended: a read failed, or a header was
\* rejected (decode_header stored a length above MAX_BODY_SIZE).
ReadDead(s) == rfailed[s] \/ read_msg_[s].body_length > MAX_BODY_SIZE

\* The threads executing a read completion handler of session s.
InReadHandler(s) ==
    {t \in Threads :
        /\ th[t].self = s
        /\ \/ th[t].pc \in {"rd_lock", "rd_loop"}
           \/ th[t].ret = "rd_loop"
           \/ (th[t].pc = "leave_lock" /\ th[t].ret = "idle")}

\* C14: a session has at most one read outstanding, and none while a read
\* handler of it runs; a read that fails or a header that is rejected sends
\* the handler to room_.leave with no read issued, then or ever after; a
\* body read is issued only by the completion of a header read, a header
\* read only at the end of join or of the session's ChatRoom::deliver call,
\* which follows the completion of a body read; and a session whose read
\* loop has ended is eventually out of participants_.
C14_ReadTerminal ==
    /\ [](\A s \in Sessions :
            /\ Len(readOp[s]) + Cardinality(InReadHandler(s)) <= 1
            /\ ReadDead(s) => readOp[s] = <<>>)
    /\ [][\A s \in Sessions :
             /\ (ReadDead(s)' /\ ~ReadDead(s))
                => /\ readOp[s] # <<>> /\ readOp'[s] = <<>>
                   /\ \E t \in Threads :
                        th'[t].self = s /\ th[t].pc = "idle" /\ th'[t].pc = "leave_lock"
             /\ (readOp'[s] # readOp[s] /\ readOp'[s] = <<"body">>)
                => readOp[s] = <<"header">>
             /\ (readOp'[s] # readOp[s] /\ readOp'[s] = <<"header">>)
                => /\ readOp[s] = <<>>
                   /\ \E t \in Threads :
                        /\ th[t].self = s /\ th[t].pc \in {"join_loop", "rd_loop"}
                        /\ th'[t].pc = "idle"
             /\ (\E t \in Threads :
                    th'[t].self = s /\ th[t].pc = "idle" /\ th'[t].pc = "rd_lock")
                => (readOp[s] = <<"body">> /\ readOp'[s] = <<>>)]_vars
    /\ \A s \in Sessions : ReadDead(s) ~> [](s \notin participants_)

\* C14's case: one session has left after a read error, another after a
\* rejected header, and no read is outstanding on either.
C14_Witness ==
    \E s1, s2 \in Sessions :
        /\ rfailed[s1] /\ nleave[s1] = 1 /\ s1 \notin participants_
        /\ ~rfailed[s2] /\ read_msg_[s2].body_length > MAX_BODY_SIZE
        /\ nleave[s2] = 1 /\ s2 \notin participants_
        /\ nframes > 0 /\ delivered # <<>>

\* C15: once a write of a session has failed, no async_write is issued on
\* the session again and none is in flight, whatever ChatRoom::deliver and
\* ChatRoom::join go on pushing to it: write_msgs_ only grows.
C15_DrainStops ==
    /\ [](\A s \in Sessions : wfailed[s] => writeOps[s] = <<>>)
    /\ [][\A s \in Sessions :
             wfailed[s] => /\ issued'[s] = issued[s]
                           /\ writeOps'[s] = <<>>
                           /\ IsPrefix(write_msgs_[s], write_msgs_'[s])]_vars

\* C15's case: the failure handler of a session has run to its end, and a
\* message pushed to the session while the handler waited for the room mutex
\* stays in its queue.
C15_Witness ==
    \E s \in Sessions :
        /\ WriteFailureHandled(s)
        /\ s \notin participants_ /\ ~writing_[s]
        /\ write_msgs_[s] # <<>>
        /\ Len(enq[s]) > Len(issued[s])

\* start() has returned from room_.join() for session s.
JoinCompleted(s) ==
    /\ s <= nAccepted
    /\ ~\E t \in Threads :
          th[t].self = s /\ (th[t].pc \in {"join_lock", "join_loop"} \/ th[t].ret = "join_loop")

\* The backlog at the time session s joined.
JoinBacklog(s) ==
    LastN(SubSeq(delivered, 1, joinK[s]), Min(joinK[s], MAX_RECENT_MSGS))

\* The first async_read of session s is issued.
FirstReadIssued(s) ==
    /\ readOp[s] = <<>> /\ readOp'[s] # <<>>
    /\ read_msg_[s] = NewMessage /\ ~rfailed[s]

\* C16: a session has a read outstanding, a read handler running or a read
\* loop that has ended only after its join has completed and the backlog of
\* that time has been pushed to it; its first read is issued while it is a
\* member with exactly that backlog pushed; and every ChatRoom::deliver call
\* for a frame of the session comes after the session's join.
C16_JoinBeforeRead ==
    /\ [](\A s \in Sessions :
            (readOp[s] # <<>> \/ InReadHandler(s) # {} \/ ReadDead(s))
            => (JoinCompleted(s) /\ IsPrefix(JoinBacklog(s), enq[s])))
    /\ [](\A i \in 1..Len(delivered) :
            LET s == Bytes(delivered[i]).from
            IN  s \in Sessions /\ i > joinK[s] /\ JoinCompleted(s))
    /\ [][\A s \in Sessions :
             FirstReadIssued(s)
             => (s \in participants_' /\ enq'[s] = JoinBacklog(s)')]_vars

\* C16's case: a session that joined a room with a backlog has had a frame
\* of its own delivered.
C16_Witness ==
    \E s \in Sessions, i \in 1..Len(delivered) :
        /\ joinK[s] >= 1
        /\ Bytes(delivered[i]).from = s
        /\ Len(enq[s]) > joinK[s]

InRange(m) == 0 <= m.body_length /\ m.body_length <= MAX_BODY_SIZE

\* C17: every Message the server holds has a body_length in
\* 0..MAX_BODY_SIZE: each session's read_msg_, every entry of
\* recent_messages_, every entry of every write_msgs_, and the message of
\* every write in flight.
C17_BodyLengthInvariant ==
    /\ \A s \in Sessions :
          /\ InRange(read_msg_[s])
          /\ \A i \in 1..Len(write_msgs_[s]) : InRange(write_msgs_[s][i])
          /\ \A i \in 1..Len(writeOps[s]) : InRange(writeOps[s][i].msg)
    /\ \A i \in 1..Len(recent_messages_) : InRange(recent_messages_[i])

\* C18: the bytes every async_write in flight takes from its buffer are
\* those of the message dequeued for it.
C18_WriteBufferValid ==
    \A s \in Sessions :
        \A i \in 1..Len(writeOps[s]) : writeOps[s][i].sent = writeOps[s][i].msg.data

\* Thread t is at a lock_guard of the room mutex, or of a write_mutex_.
RoomRequest(t) == th[t].pc \in {"join_lock", "leave_lock", "rd_lock"}
WriteRequest(t) == th[t].pc \in {"sd_lock", "dw_lock"}
HoldsWrite(t) == \E s \in Sessions : write_mutex_[s] = t

\* Thread t is inside a handler and cannot take its next step.
Blocked(t) == th[t].pc # "idle" /\ ~ENABLED Running(t)

\* The thread holding the mutex thread t is requesting (0 when it is free).
Holder(t) == IF RoomRequest(t) THEN mutex_ ELSE write_mutex_[th[t].to]

\* C19: no thread requests the room mutex while it holds it or holds a
\* write_mutex_, and none requests a write_mutex_ while it holds one; a
\* thread that holds a write_mutex_ is never blocked; and a blocked thread
\* waits for a mutex held by another thread, which is itself blocked only
\* if it holds the room mutex and waits for a write_mutex_.  So every chain
\* of waiting threads ends in a thread that can run.
C19_DeadlockFree ==
    \A t \in Threads :
        /\ RoomRequest(t) => (mutex_ # t /\ ~HoldsWrite(t))
        /\ WriteRequest(t) => ~HoldsWrite(t)
        /\ HoldsWrite(t) => ~Blocked(t)
        /\ Blocked(t) =>
              /\ RoomRequest(t) \/ WriteRequest(t)
              /\ Holder(t) \in Threads \ {t}
              /\ Blocked(Holder(t)) => (RoomRequest(t) /\ WriteRequest(Holder(t)))

\* C19's case: a thread inside ChatRoom::deliver or join, holding the room
\* mutex, waits for the write_mutex_ of a session that another thread holds
\* inside do_write.
C19_Witness ==
    \E t, h \in Threads :
        /\ t # h /\ mutex_ = t
        /\ th[t].pc = "sd_lock" /\ write_mutex_[th[t].to] = h
        /\ th[h].pc = "dw_body" /\ Blocked(t)

\* The threads of the client inside ChatClient::write or a handler.
ClientBusy == client.pc["main"] \notin {"input", "done"} \/ client.pc["io"] # "idle"
ClientDrainers == {who \in {"main", "io"} : client.pc[who] \in {"dw_lock", "dw_body"}}

\* C20: the client has at most one write in flight or being issued; it
\* issues the messages passed to write() in the order they were passed; and
\* while it is connected and no write has failed, whenever neither thread is
\* inside write() or a handler, a non-empty write_msgs_ has a write in
\* flight with writing_ set, so that the queue drains with no further call
\* of write().
C20_ClientSendQueue ==
    /\ Len(client.writeOps) + Cardinality(ClientDrainers) <= 1
    /\ IsPrefix(client.issued, client.passed)
    /\ (/\ client.connected_ /\ ~client.wfailed
        /\ ~ClientBusy
        /\ client.write_msgs_ # <<>>)
       => (client.writing_ /\ client.writeOps # <<>>)

\* The parts of C20 that do hold of the client: one write at a time, in the
\* order of the calls.
ClientOneWriteInOrder ==
    /\ Len(client.writeOps) + Cardinality(ClientDrainers) <= 1
    /\ IsPrefix(client.issued, client.passed)

====
